---- MODULE Spec2Model ----
(***************************************************************************)
(* Time value of money: SingleSum and Annuity<Regular|Due> valuations of   *)
(* src/src/lib.rs.                                                         *)
(*                                                                         *)
(* f64 values are modelled as exact rationals [p, q] in lowest terms with  *)
(* q > 0; a record with q = 0 stands for a value outside that range (an    *)
(* overflowed magnitude, an infinity or a NaN).  u32 values are kept at    *)
(* their full width as two 16-bit limbs [hi, lo], because the value range  *)
(* of the model checker's integers ends at 2^31 - 1.                       *)
(***************************************************************************)
EXTENDS Integers, Sequences, FiniteSets, TLC

VARIABLES ss, lastSet, ssCall, reg, due, debug, regPV, regFV, duePV, dueFV

vars == <<ss, lastSet, ssCall, reg, due, debug, regPV, regFV, duePV, dueFV>>

(* ------------------------------ bounds --------------------------------- *)

\* Largest period count (and largest distance below 2^32) that is explored.
MaxPeriod == 3

(* --------------------------- exact arithmetic -------------------------- *)

Abs(n) == IF n < 0 THEN -n ELSE n

RECURSIVE GCD(_, _)
GCD(a, b) == IF b = 0 THEN a ELSE GCD(b, a % b)

\* The rational p/q (q # 0) in lowest terms with a positive denominator.
Rat(p, q) ==
    LET g == GCD(Abs(p), Abs(q))
        s == IF (p < 0) # (q < 0) THEN -1 ELSE 1
    IN  [p |-> s * (Abs(p) \div g), q |-> Abs(q) \div g]

FromInt(n) == [p |-> n, q |-> 1]

Zero == FromInt(0)

One == FromInt(1)

\* Over the least common denominator, so that the intermediate products
\* stay small.
Add(x, y) ==
    LET g == GCD(x.q, y.q)
    IN  Rat(x.p * (y.q \div g) + y.p * (x.q \div g), (x.q \div g) * y.q)

\* Cross-reduced first so that the intermediate products stay small.
Mul(x, y) ==
    LET a == Rat(x.p, y.q)
        b == Rat(y.p, x.q)
    IN  Rat(a.p * b.p, a.q * b.q)

Div(x, y) == Mul(x, Rat(y.q, y.p))

Less(x, y) == x.p * y.q < y.p * x.q

\* Values an f64 holds that the rationals above do not: s = 1 / -1 for a
\* positive / negative overflowed or infinite value, s = 0 for NaN.
NonFinite(s) == [p |-> s, q |-> 0]

IsFinite(x) == x.q > 0

(* ------------------------------- u32 ----------------------------------- *)

Limb == 2 ^ 16

U32(n) == [hi |-> n \div Limb, lo |-> n % Limb]

U32Max == [hi |-> Limb - 1, lo |-> Limb - 1]

\* 2^32 - 1 - k
U32FromTop(k) == [hi |-> Limb - 1, lo |-> Limb - 1 - k]

\* `x as i32`: the same 32 bits read as two's complement.
AsI32(x) ==
    IF x.hi < Limb \div 2
    THEN x.hi * Limb + x.lo
    ELSE (x.hi - Limb) * Limb + x.lo

\* `x as usize` for the values that fit the model's integers.
AsUsize(x) == x.hi * Limb + x.lo

FitsInt(x) == x.hi < Limb \div 2

\* x - 1 without overflow checks (release profile): wraps modulo 2^32.
WrappingDec(x) ==
    IF x.lo > 0 THEN [x EXCEPT !.lo = x.lo - 1]
    ELSE IF x.hi > 0 THEN [hi |-> x.hi - 1, lo |-> Limb - 1]
    ELSE U32Max

(* ------------------------------ inputs --------------------------------- *)

\* Amounts (T = i32 in the tests); 1000 at rate 1/10 over 3 periods is the
\* present-value scenario of the tests.
Amounts == {-100, 0, 1, 7, 100}

SingleSumAmounts == Amounts \cup {1000}

Rates == {Rat(-1, 10), Rat(0, 1), Rat(1, 10), Rat(1, 2)}

SmallPeriods == {U32(n) : n \in 0..MaxPeriod}

\* u32 periods at the top of the range: 2^32 - 1, 2^32 - 2, ...
TopPeriods == {U32FromTop(k) : k \in 0..(MaxPeriod - 1)}

SingleSumPeriods == SmallPeriods \cup TopPeriods

(* ------------------------------ results -------------------------------- *)

NoInner == [kind |-> "None", val |-> Zero]

\* What one valuation call did and returned.
\*   kind  : "Ok" | "Err" | "Panic" | "Abort"  ("None": not called yet)
\*   steps : the computation steps executed, in order
\*   terms : the elements pushed to the `result` vector
\*   exp   : the i32 handed to powi
\*   inner : what the delegated call returned (Annuity<Due>::present_value)
Outcome(kind, err, val, steps, terms, exp, inner) ==
    [kind |-> kind, err |-> err, val |-> val, steps |-> steps,
     terms |-> terms, exp |-> exp, inner |-> inner]

NotCalled == Outcome("None", "-", Zero, <<>>, <<>>, 0, NoInner)

ErrNegativeDiscount ==
    Outcome("Err", "NegativeDiscount", Zero, <<"rate_check">>, <<>>, 0, NoInner)

(* ------------------------------ round ---------------------------------- *)

\* f64::round: nearest integer, ties away from zero.
RoundHalfAway(x) ==
    LET a == Abs(x.p)
        w == a \div x.q
        r == a % x.q
        m == IF 2 * r >= x.q THEN w + 1 ELSE w
    IN  IF x.p < 0 THEN -m ELSE m

\* fn round(value) = (value * 100.0).round() / 100.0
round(value) ==
    IF IsFinite(value)
    THEN Div(FromInt(RoundHalfAway(Mul(value, FromInt(100)))), FromInt(100))
    ELSE value

(* ------------------------------- powi ---------------------------------- *)

RECURSIVE PowNat(_, _)
PowNat(x, k) == IF k = 0 THEN One ELSE Mul(x, PowNat(x, k - 1))

\* f64::powi(x, n) for an i32 n: x^n, and 1 / x^(-n) for a negative n.
powi(x, n) == IF n >= 0 THEN PowNat(x, n) ELSE Div(One, PowNat(x, -n))

(* ----------------------------- SingleSum ------------------------------- *)

SingleSumNew(amt, rate, period) ==
    [amount |-> amt, rate |-> rate, period |-> period]

amount(self) == self.amount

rate(self) == self.rate

period(self) == self.period

set_amount(self, amt) == [self EXCEPT !.amount = amt]

\* set_rate that also resets the period.
set_rate_clobbers_period(self, r) == [self EXCEPT !.rate = r, !.period = U32(0)]

set_rate(self, r) == [self EXCEPT !.rate = r]

set_period(self, n) == [self EXCEPT !.period = n]

SingleSumPresentValue(self) ==
    IF Less(self.rate, Zero)
    THEN ErrNegativeDiscount
    ELSE LET e  == AsI32(self.period)
             pv == Div(FromInt(self.amount), powi(Add(One, self.rate), e))
         IN  Outcome("Ok", "-", round(pv),
                     <<"rate_check", "powi", "div", "round">>, <<>>, e, NoInner)

SingleSumFutureValue(self) ==
    IF Less(self.rate, Zero)
    THEN ErrNegativeDiscount
    ELSE LET e  == AsI32(self.period)
             fv == Mul(FromInt(self.amount), powi(Add(One, self.rate), e))
         IN  Outcome("Ok", "-", round(fv),
                     <<"rate_check", "powi", "mul", "round">>, <<>>, e, NoInner)

(* ----------------------------- Annuity --------------------------------- *)

AnnuityNew(cashflows, r, n) ==
    [cashflow |-> cashflows, rate |-> r, period |-> n]

\* for i in 0..count { result.push(res); res *= f; }
RECURSIVE PushLoop(_, _, _, _)
PushLoop(count, res, f, result) ==
    IF count = 0
    THEN result
    ELSE PushLoop(count - 1, Mul(res, f), f, Append(result, res))

\* result.iter().sum()
RECURSIVE IterSum(_)
IterSum(result) ==
    IF result = <<>>
    THEN Zero
    ELSE Add(IterSum(SubSeq(result, 1, Len(result) - 1)), result[Len(result)])

Panicked(steps, terms) == Outcome("Panic", "-", Zero, steps, terms, 0, NoInner)

\* present_value whose loop starts at res = 1 (discount exponents 0 .. n-1).
AnnuityRegularPresentValueFromZero(self, dbg) ==
    IF Less(self.rate, Zero)
    THEN ErrNegativeDiscount
    ELSE LET f      == Div(One, Add(One, self.rate))
             result == PushLoop(AsUsize(self.period), One, f, <<>>)
             pv     == Mul(FromInt(self.cashflow), IterSum(result))
         IN  Outcome("Ok", "-", round(pv),
                     <<"rate_check", "loop", "sum", "mul", "round">>,
                     result, 0, NoInner)

\* Annuity<T, Regular>::present_value.  dbg: the build has debug assertions
\* and overflow checks (the dev and test profiles).
AnnuityRegularPresentValue(self, dbg) ==
    IF Less(self.rate, Zero)
    THEN ErrNegativeDiscount
    ELSE LET f      == Div(One, Add(One, self.rate))
             result == PushLoop(AsUsize(self.period), f, f, <<>>)
             pv     == Mul(FromInt(self.cashflow), IterSum(result))
         IN  IF dbg /\ AsUsize(self.period) # Len(result)
             THEN Panicked(<<"rate_check", "loop", "debug_assert">>, result)
             ELSE Outcome("Ok", "-", round(pv),
                          <<"rate_check", "loop", "sum", "mul", "round">>,
                          result, 0, NoInner)

\* The value of cashflow * (sum + 1.0) after the loop ran 2^32 - 1 times:
\* at rate 0 the factor is 2^32, at a positive rate res overflowed to +inf.
LongLoopValue(self) ==
    IF self.cashflow = 0
    THEN (IF self.rate = Zero THEN Zero ELSE NonFinite(0))
    ELSE NonFinite(IF self.cashflow < 0 THEN -1 ELSE 1)

\* future_value that loops `period` times and adds no final 1.0 (growth
\* exponents 1 .. n).
AnnuityRegularFutureValueFullLoop(self, dbg, oom) ==
    IF Less(self.rate, Zero)
    THEN ErrNegativeDiscount
    ELSE LET f      == Add(One, self.rate)
             result == PushLoop(AsUsize(self.period), f, f, <<>>)
             pv     == Mul(FromInt(self.cashflow), IterSum(result))
         IN  Outcome("Ok", "-", round(pv),
                     <<"rate_check", "loop", "sum", "mul", "round">>,
                     result, 0, NoInner)

\* Annuity<T, Regular>::future_value.  `period - 1` at period 0 panics under
\* overflow checks and wraps to 2^32 - 1 without them; the vector of
\* 2^32 - 1 f64 then either cannot be allocated (oom) or is summed.
AnnuityRegularFutureValue(self, dbg, oom) ==
    IF Less(self.rate, Zero)
    THEN ErrNegativeDiscount
    ELSE IF self.period = U32(0) /\ dbg
    THEN Panicked(<<"rate_check", "sub_overflow">>, <<>>)
    ELSE LET count == WrappingDec(self.period)
         IN  IF ~FitsInt(count)
             THEN IF oom
                  THEN Outcome("Abort", "-", Zero, <<"rate_check", "loop">>,
                               <<>>, 0, NoInner)
                  ELSE Outcome("Ok", "-", round(LongLoopValue(self)),
                               <<"rate_check", "loop", "sum", "mul", "round">>,
                               <<>>, 0, NoInner)
             ELSE LET f      == Add(One, self.rate)
                      result == PushLoop(AsUsize(count), f, f, <<>>)
                      fac    == Add(IterSum(result), One)
                      pv     == Mul(FromInt(self.cashflow), fac)
                  IN  IF dbg /\ AsUsize(self.period) # Len(result) + 1
                      THEN Panicked(<<"rate_check", "loop", "debug_assert">>, result)
                      ELSE Outcome("Ok", "-", round(pv),
                                   <<"rate_check", "loop", "sum", "mul", "round">>,
                                   result, 0, NoInner)

\* Due present_value without its own rate check: it delegates at once and
\* unwraps whatever the Regular computation returns.
AnnuityDuePresentValueUnchecked(self, dbg) ==
    LET pv_r  == AnnuityNew(self.cashflow, self.rate, self.period)
        got   == AnnuityRegularPresentValue(pv_r, dbg)
        inner == [kind |-> got.kind, val |-> got.val]
        res   == Mul(got.val, Add(One, self.rate))
    IN  IF got.kind # "Ok"
        THEN Outcome("Panic", "-", Zero, <<"delegate", "unwrap">>, <<>>, 0, inner)
        ELSE Outcome("Ok", "-", round(res),
                     <<"rate_check", "delegate", "unwrap", "mul", "round">>,
                     <<>>, 0, inner)

\* Due present_value from a sum of its own (discount exponents 0 .. n-1),
\* rounded once, with no call of the Regular computation.
AnnuityDuePresentValueDirect(self, dbg) ==
    IF Less(self.rate, Zero)
    THEN ErrNegativeDiscount
    ELSE LET f      == Div(One, Add(One, self.rate))
             result == PushLoop(AsUsize(self.period), One, f, <<>>)
             pv     == Mul(FromInt(self.cashflow), IterSum(result))
         IN  Outcome("Ok", "-", round(pv),
                     <<"rate_check", "loop", "sum", "mul", "round">>,
                     <<>>, 0, NoInner)

\* Annuity<T, Due>::present_value: builds an Annuity<T, Regular> from its own
\* fields, unwraps that one's present value and scales it by (1 + rate).
AnnuityDuePresentValue(self, dbg) ==
    IF Less(self.rate, Zero)
    THEN ErrNegativeDiscount
    ELSE LET pv_r  == AnnuityNew(self.cashflow, self.rate, self.period)
             got   == AnnuityRegularPresentValue(pv_r, dbg)
             inner == [kind |-> got.kind, val |-> got.val]
             res   == Mul(got.val, Add(One, self.rate))
         IN  IF got.kind # "Ok"
             THEN Outcome("Panic", "-", Zero, <<"rate_check", "delegate", "unwrap">>,
                          <<>>, 0, inner)
             ELSE Outcome("Ok", "-", round(res),
                          <<"rate_check", "delegate", "unwrap", "mul", "round">>,
                          <<>>, 0, inner)

\* Due future_value whose loop starts at res = 1 (growth exponents 0 .. n-1).
AnnuityDueFutureValueFromZero(self, dbg) ==
    IF Less(self.rate, Zero)
    THEN ErrNegativeDiscount
    ELSE LET f      == Add(One, self.rate)
             result == PushLoop(AsUsize(self.period), One, f, <<>>)
             pv     == Mul(FromInt(self.cashflow), IterSum(result))
         IN  Outcome("Ok", "-", round(pv),
                     <<"rate_check", "loop", "sum", "mul", "round">>,
                     result, 0, NoInner)

\* Annuity<T, Due>::future_value
AnnuityDueFutureValue(self, dbg) ==
    IF Less(self.rate, Zero)
    THEN ErrNegativeDiscount
    ELSE LET f      == Add(One, self.rate)
             result == PushLoop(AsUsize(self.period), f, f, <<>>)
             pv     == Mul(FromInt(self.cashflow), IterSum(result))
         IN  IF dbg /\ AsUsize(self.period) # Len(result)
             THEN Panicked(<<"rate_check", "loop", "debug_assert">>, result)
             ELSE Outcome("Ok", "-", round(pv),
                          <<"rate_check", "loop", "sum", "mul", "round">>,
                          result, 0, NoInner)

(* --------------------------- state machine ----------------------------- *)

NoCall == [op |-> "none", self |-> SingleSumNew(0, Zero, U32(0)), ret |-> NotCalled]

AnnuityIdle ==
    /\ reg = AnnuityNew(0, Zero, U32(0))
    /\ due = AnnuityNew(0, Zero, U32(0))
    /\ debug = TRUE
    /\ regPV = NotCalled
    /\ regFV = NotCalled
    /\ duePV = NotCalled
    /\ dueFV = NotCalled

annuityVars == <<reg, due, debug, regPV, regFV, duePV, dueFV>>

singleSumVars == <<ss, lastSet, ssCall>>

\* SingleSum::new(amt, rate, period), no setter or valuation called yet.
InitSingleSum ==
    /\ \E a \in SingleSumAmounts, r \in Rates, n \in SingleSumPeriods :
          ss = SingleSumNew(a, r, n)
    /\ lastSet = ss
    /\ ssCall = NoCall
    /\ AnnuityIdle

SetAmount ==
    /\ \E a \in SingleSumAmounts :
          /\ ss' = set_amount(ss, a)
          /\ lastSet' = [lastSet EXCEPT !.amount = a]
    /\ UNCHANGED <<ssCall, annuityVars>>

SetRate ==
    /\ \E r \in Rates :
          /\ ss' = set_rate(ss, r)
          /\ lastSet' = [lastSet EXCEPT !.rate = r]
    /\ UNCHANGED <<ssCall, annuityVars>>

SetPeriod ==
    /\ \E n \in SingleSumPeriods :
          /\ ss' = set_period(ss, n)
          /\ lastSet' = [lastSet EXCEPT !.period = n]
    /\ UNCHANGED <<ssCall, annuityVars>>

PresentValue ==
    /\ ssCall' = [op |-> "present_value", self |-> ss, ret |-> SingleSumPresentValue(ss)]
    /\ UNCHANGED <<ss, lastSet, annuityVars>>

FutureValue ==
    /\ ssCall' = [op |-> "future_value", self |-> ss, ret |-> SingleSumFutureValue(ss)]
    /\ UNCHANGED <<ss, lastSet, annuityVars>>

NextSingleSum == SetAmount \/ SetRate \/ SetPeriod \/ PresentValue \/ FutureValue

SpecSingleSum == InitSingleSum /\ [][NextSingleSum]_vars

(* One amount and rate, valued as a single sum and as both annuities. *)

InitValuation ==
    /\ \E a \in Amounts, r \in Rates, n \in SmallPeriods, m \in SingleSumPeriods :
          /\ ss = SingleSumNew(a, r, m)
          /\ reg = AnnuityNew(a, r, n)
          /\ due = AnnuityNew(a, r, n)
    /\ lastSet = ss
    /\ ssCall = NoCall
    /\ debug \in BOOLEAN
    /\ regPV = NotCalled
    /\ regFV = NotCalled
    /\ duePV = NotCalled
    /\ dueFV = NotCalled

RegularPresentValue ==
    /\ regPV' = AnnuityRegularPresentValue(reg, debug)
    /\ UNCHANGED <<singleSumVars, reg, due, debug, regFV, duePV, dueFV>>

RegularFutureValue ==
    /\ \E oom \in BOOLEAN : regFV' = AnnuityRegularFutureValue(reg, debug, oom)
    /\ UNCHANGED <<singleSumVars, reg, due, debug, regPV, duePV, dueFV>>

DuePresentValue ==
    /\ duePV' = AnnuityDuePresentValue(due, debug)
    /\ UNCHANGED <<singleSumVars, reg, due, debug, regPV, regFV, dueFV>>

DueFutureValue ==
    /\ dueFV' = AnnuityDueFutureValue(due, debug)
    /\ UNCHANGED <<singleSumVars, reg, due, debug, regPV, regFV, duePV>>

NextValuation ==
    \/ PresentValue
    \/ FutureValue
    \/ RegularPresentValue
    \/ RegularFutureValue
    \/ DuePresentValue
    \/ DueFutureValue

SpecValuation == InitValuation /\ [][NextValuation]_vars

(* ------------------- the mathematics the claims refer to --------------- *)

RECURSIVE Power(_, _)
Power(x, k) == IF k = 0 THEN One ELSE Mul(Power(x, k - 1), x)

\* Sum of T[i] for i = 1 .. n
RECURSIVE SumTo(_, _)
SumTo(n, T) == IF n = 0 THEN Zero ELSE Add(SumTo(n - 1, T), T[n])

Growth(r) == Add(One, r)

NonNegative(r) == ~Less(r, Zero)

\* round2(A / (1+r)^n) for a u32 n.  For n >= 2^31 the power is 1 at rate 0
\* and otherwise so large that the quotient is below half a cent.
DiscountedSum(A, r, n) ==
    IF FitsInt(n)
    THEN round(Div(FromInt(A), Power(Growth(r), AsUsize(n))))
    ELSE IF r = Zero THEN round(FromInt(A)) ELSE Zero

\* round2(A * (1+r)^n) for a u32 n.  For n >= 2^31 the power is 1 at rate 0
\* and otherwise beyond every finite value of the model.
CompoundedSum(A, r, n) ==
    IF FitsInt(n)
    THEN round(Mul(FromInt(A), Power(Growth(r), AsUsize(n))))
    ELSE IF r = Zero \/ A = 0 THEN round(FromInt(A))
    ELSE NonFinite(IF A < 0 THEN -1 ELSE 1)

AnnuityResults == <<regPV, regFV, duePV, dueFV>>

Called(res) == res.kind # "None"

RejectedAtOnce(res) ==
    /\ res.kind = "Err"
    /\ res.err = "NegativeDiscount"
    /\ res.steps = <<"rate_check">>
    /\ res.terms = <<>>
    /\ res.inner = NoInner

(* ------------------------------- claims -------------------------------- *)

\* C1: every valuation called with rate < 0 returns Err(NegativeDiscount),
\* and the rate check is the only step it takes: no loop iteration, sum,
\* power or delegation.  Every call, whatever the rate, starts with the check.
C1_NegativeRateRejectedFirst ==
    /\ \A i \in 1..4 :
          LET res == AnnuityResults[i]
          IN  Called(res) =>
                /\ res.steps[1] = "rate_check"
                /\ Less(reg.rate, Zero) => RejectedAtOnce(res)
    /\ Called(ssCall.ret) =>
          /\ ssCall.ret.steps[1] = "rate_check"
          /\ Less(ssCall.self.rate, Zero) => RejectedAtOnce(ssCall.ret)

C1_Witness ==
    /\ Less(reg.rate, Zero)
    /\ Less(ssCall.self.rate, Zero)
    /\ ssCall.op = "future_value"
    /\ \A i \in 1..4 : Called(AnnuityResults[i])

\* C2: an annuity of zero cash flows (period 0) with rate >= 0 yields
\* Err(EmptyCashFlow) from every annuity operation.
C2_EmptySeriesRejected ==
    \A i \in 1..4 :
       LET res == AnnuityResults[i]
       IN  (Called(res) /\ NonNegative(reg.rate) /\ reg.period = U32(0)) =>
              (res.kind = "Err" /\ res.err = "EmptyCashFlow")

\* C3: every valuation call returns: Ok with a rounded number, or Err with
\* one of the two error kinds; none panics or aborts, also at period 0.
ReturnsNormally(res) ==
    \/ res.kind = "Ok" /\ IsFinite(res.val) /\ round(res.val) = res.val
    \/ res.kind = "Err" /\ res.err \in {"NegativeDiscount", "EmptyCashFlow"}

C3_EveryCallReturns ==
    /\ \A i \in 1..4 : Called(AnnuityResults[i]) => ReturnsNormally(AnnuityResults[i])
    /\ Called(ssCall.ret) => ReturnsNormally(ssCall.ret)

\* C4: for rate >= 0 and every period n, SingleSum present_value returns
\* Ok(round2(A / (1+r)^n)) and future_value returns Ok(round2(A * (1+r)^n)).
C4_SingleSumFormulas ==
    LET self == ssCall.self
        ret  == ssCall.ret
    IN  (Called(ret) /\ NonNegative(self.rate)) =>
           /\ ret.kind = "Ok"
           /\ ssCall.op = "present_value" =>
                 ret.val = DiscountedSum(self.amount, self.rate, self.period)
           /\ ssCall.op = "future_value" =>
                 ret.val = CompoundedSum(self.amount, self.rate, self.period)

\* C5: for rate >= 0 and n >= 1, Annuity<Regular> present_value returns
\* Ok(round2(sum over i = 1..n of C / (1+r)^i)): the loop accumulates n terms
\* with discount exponents 1 .. n and the result is rounded once.
C5_RegularPresentValue ==
    LET n == AsUsize(reg.period)
        g == Growth(reg.rate)
        T == [i \in 1..n |-> Div(FromInt(reg.cashflow), Power(g, i))]
    IN  (Called(regPV) /\ NonNegative(reg.rate) /\ n >= 1) =>
           /\ regPV.kind = "Ok"
           /\ Len(regPV.terms) = n
           /\ \A i \in 1..n : regPV.terms[i] = Div(One, Power(g, i))
           /\ regPV.val = round(SumTo(n, T))

C5_Witness ==
    /\ Called(regPV)
    /\ reg = AnnuityNew(7, Rat(1, 10), U32(3))
    /\ regPV.val = Rat(1741, 100)

\* C6 as claimed: for rate >= 0 and n >= 1, Annuity<Regular> future_value
\* returns Ok(round2(sum over i = 1..n of C * (1+r)^(n-i+1))), growth
\* exponents n, n-1, ..., 1.
C6_RegularFutureValueAsClaimed ==
    LET n == AsUsize(reg.period)
        g == Growth(reg.rate)
        T == [i \in 1..n |-> Mul(FromInt(reg.cashflow), Power(g, n - i + 1))]
    IN  (Called(regFV) /\ NonNegative(reg.rate) /\ n >= 1) =>
           /\ regFV.kind = "Ok"
           /\ regFV.val = round(SumTo(n, T))

\* C6 amended: for rate >= 0 and n >= 1, Annuity<Regular> future_value
\* returns Ok(round2(sum over i = 1..n of C * (1+r)^(n-i))): growth exponents
\* n-1, ..., 1 from the loop's n-1 terms and exponent 0 from the added 1.0
\* (the last cash flow is not compounded).
C6_RegularFutureValue ==
    LET n == AsUsize(reg.period)
        g == Growth(reg.rate)
        T == [i \in 1..n |-> Mul(FromInt(reg.cashflow), Power(g, n - i))]
    IN  (Called(regFV) /\ NonNegative(reg.rate) /\ n >= 1) =>
           /\ regFV.kind = "Ok"
           /\ Len(regFV.terms) = n - 1
           /\ \A i \in 1..(n - 1) : regFV.terms[i] = Power(g, i)
           /\ regFV.val = round(SumTo(n, T))

C6_Witness ==
    /\ Called(regFV)
    /\ reg = AnnuityNew(100, Rat(1, 10), U32(3))
    /\ regFV.val = FromInt(331)

\* C7: for rate >= 0 and every period, Annuity<Due> present_value is
\* round2(P * (1+r)), P being the already rounded value that the Regular
\* present_value returns for the same cash flow, rate and period, and it is
\* obtained by calling that computation, not from a sum of its own.
C7_DuePresentValueDelegates ==
    LET P == AnnuityRegularPresentValue(
                 AnnuityNew(due.cashflow, due.rate, due.period), debug)
    IN  (Called(duePV) /\ NonNegative(due.rate)) =>
           /\ duePV.kind = "Ok"
           /\ duePV.inner = [kind |-> "Ok", val |-> P.val]
           /\ duePV.val = round(Mul(duePV.inner.val, Growth(due.rate)))
           /\ duePV.terms = <<>>
           /\ \E k \in 1..Len(duePV.steps) : duePV.steps[k] = "delegate"
           /\ (Called(regPV) /\ reg = due) =>
                 duePV.val = round(Mul(regPV.val, Growth(due.rate)))

\* The rounded P matters here: P = 0.67, and 0.67 * 1.5 = 1.005 rounds to
\* 1.01, while the unrounded 2/3 * 1.5 is 1.
C7_Witness ==
    /\ Called(duePV)
    /\ Called(regPV)
    /\ due = AnnuityNew(1, Rat(1, 2), U32(1))
    /\ regPV.val = Rat(67, 100)
    /\ duePV.val = Rat(101, 100)

\* C8: for rate >= 0 and n >= 1 the Due future value gives every term one
\* more period of growth than the Regular one: both sums have n terms, the
\* term of growth exponent k+1 in the Due sum is (1+r) times the term of
\* exponent k in the Regular sum (whose exponent-0 term is the added 1.0),
\* and the unrounded Due sum is (1+r) times the unrounded Regular sum.
C8_DueFutureValueOneMorePeriod ==
    LET n == AsUsize(due.period)
        g == Growth(due.rate)
        RegularTerm(k) == IF k = 1 THEN One ELSE regFV.terms[k - 1]
    IN  (Called(dueFV) /\ Called(regFV) /\ reg = due
            /\ NonNegative(due.rate) /\ n >= 1) =>
           /\ dueFV.kind = "Ok" /\ regFV.kind = "Ok"
           /\ Len(dueFV.terms) = n
           /\ Len(regFV.terms) + 1 = n
           /\ \A k \in 1..n : dueFV.terms[k] = Mul(g, RegularTerm(k))
           /\ IterSum(dueFV.terms) = Mul(g, Add(IterSum(regFV.terms), One))
           /\ dueFV.val = round(Mul(FromInt(due.cashflow), IterSum(dueFV.terms)))
           /\ regFV.val =
                 round(Mul(FromInt(reg.cashflow), Add(IterSum(regFV.terms), One)))

C8_Witness ==
    /\ Called(dueFV)
    /\ Called(regFV)
    /\ due = AnnuityNew(100, Rat(1, 10), U32(3))
    /\ reg = due
    /\ regFV.val = FromInt(331)
    /\ dueFV.val = Rat(36410, 100)

\* C9: each SingleSum getter returns the value most recently passed to its
\* field's setter (or the constructor's); a setter changes its own field
\* only; present_value and future_value change no field, also when they
\* return an error, and compute from the current field values.
C9_SettersAndValuationsFrame ==
    /\ [](/\ amount(ss) = lastSet.amount
          /\ rate(ss) = lastSet.rate
          /\ period(ss) = lastSet.period)
    /\ [][/\ ss'.amount # ss.amount => (ss'.rate = ss.rate /\ ss'.period = ss.period)
          /\ ss'.rate # ss.rate => (ss'.amount = ss.amount /\ ss'.period = ss.period)
          /\ ss'.period # ss.period => (ss'.amount = ss.amount /\ ss'.rate = ss.rate)
          /\ ssCall' # ssCall =>
                /\ ss' = ss
                /\ ssCall'.self = lastSet
                /\ ssCall'.op = "present_value" =>
                      ssCall'.ret = SingleSumPresentValue(lastSet)
                /\ ssCall'.op = "future_value" =>
                      ssCall'.ret = SingleSumFutureValue(lastSet)]_vars

\* The present value of the fields as they are now: 1000 at rate 1/10 over 3
\* periods is 751.31.
C9_Witness ==
    /\ ssCall.op = "present_value"
    /\ ssCall.self = ss
    /\ ss = SingleSumNew(1000, Rat(1, 10), U32(3))
    /\ ssCall.ret.val = Rat(75131, 100)

\* C10: for every u32 period the exponent handed to powi equals the period
\* and is not negative.
C10_ExponentIsThePeriod ==
    (ssCall.ret.kind = "Ok") =>
       /\ ssCall.ret.exp >= 0
       /\ U32(ssCall.ret.exp) = ssCall.self.period

====
